---------------------------- MODULE Spec2Model ----------------------------
(***************************************************************************)
(* A model of the terminal-to-chat bridge of src/telegram_bridge.py.       *)
(*                                                                         *)
(* The bridge is one asyncio event loop.  A step of the model is what the  *)
(* loop runs between two suspension points of a coroutine: the await of    *)
(* reply_text, of asyncio.sleep and of bot.send_message.  The two          *)
(* "async with buffer_lock" blocks hold no await, so the lock is never     *)
(* contended, its acquire never suspends, and each block lies inside one   *)
(* step.  os.read and os.write are plain blocking system calls on the      *)
(* blocking descriptor that pty.openpty returns.                           *)
(*                                                                         *)
(* Bytes and characters are their code points.  Time is counted in ticks;  *)
(* the debounce interval is OUTPUT_DEBOUNCE_SEC ticks.                     *)
(***************************************************************************)
EXTENDS Integers, Sequences, FiniteSets, TLC

\* ------------------------------------------------------------------ bounds
\* Inbound updates delivered to handle_message.
MaxUpdates == 2
\* Chunks the child processes write to their terminals, in total.
MaxOutput == 2
\* read_from_pty tasks created and not yet run.
MaxTasks == 2
\* Length of the texts the escape filter is applied to on its own.
MaxLen == 4
\* Length of the texts chunk_text is applied to on its own, and the largest
\* chunk size it is given.
MaxText == 5
MaxSize == 3
\* Calls of interactions.get by one poll_interaction, and commands of the
\* research runner run one after the other.
MaxPolls == 2
MaxCommands == 3
\* The debounce interval, in ticks (0.35 s in the source).
OUTPUT_DEBOUNCE_SEC == 2
\* The message size limit, in characters (3500 in the source).
MAX_MESSAGE_CHARS == 2

\* --------------------------------------------------------------- constants
\* User ids are compared for equality only; they are kept as numerals.
ALLOWED_USER_ID == "5143179617"
ESC == 27
\* What bytes.decode(errors='replace') puts in place of an invalid byte.
REPLACEMENT == 65533

QUERY_CURSOR == <<27, 91, 54, 110>>
ANSWER_CURSOR == <<27, 91, 49, 59, 49, 82>>

\* ---------------------------------------------------------- pure functions
Min(a, b) == IF a < b THEN a ELSE b

\* ANSI_ESCAPE = \x1B(?:[@-Z\\-_]|\[[0-?]*[ -/]*[@-~])
IsTwoCharFinal(c) == (64 <= c /\ c <= 90) \/ (92 <= c /\ c <= 95)
IsParam(c) == 48 <= c /\ c <= 63
IsIntermediate(c) == 32 <= c /\ c <= 47
IsCsiFinal(c) == 64 <= c /\ c <= 126

\* The first index >= i of s whose element is not in the class, Len(s)+1 if none.
RECURSIVE SkipParams(_, _)
SkipParams(s, i) ==
    IF i <= Len(s) /\ IsParam(s[i]) THEN SkipParams(s, i + 1) ELSE i

RECURSIVE SkipIntermediates(_, _)
SkipIntermediates(s, i) ==
    IF i <= Len(s) /\ IsIntermediate(s[i]) THEN SkipIntermediates(s, i + 1) ELSE i

\* The length of the match of ANSI_ESCAPE that starts at index i of s, 0 if none.
\* The three classes of the bracketed alternative are disjoint, so the greedy
\* match is the only candidate: backtracking finds nothing else.
AnsiMatchLen(s, i) ==
    IF i > Len(s) \/ s[i] # ESC \/ i + 1 > Len(s) THEN 0
    ELSE IF IsTwoCharFinal(s[i + 1]) THEN 2
    ELSE IF s[i + 1] # 91 THEN 0
    ELSE LET j == SkipIntermediates(s, SkipParams(s, i + 2))
         IN IF j <= Len(s) /\ IsCsiFinal(s[j]) THEN j - i + 1 ELSE 0

\* ANSI_ESCAPE.sub('', s): one left-to-right pass that drops every match.
RECURSIVE StripFrom(_, _)
StripFrom(s, i) ==
    IF i > Len(s) THEN <<>>
    ELSE LET k == AnsiMatchLen(s, i)
         IN IF k > 0 THEN StripFrom(s, i + k)
            ELSE <<s[i]>> \o StripFrom(s, i + 1)

Strip(s) == StripFrom(s, 1)

\* QUERY_CURSOR in data
RECURSIVE HasQueryFrom(_, _)
HasQueryFrom(s, i) ==
    IF i + Len(QUERY_CURSOR) - 1 > Len(s) THEN FALSE
    ELSE IF SubSeq(s, i, i + Len(QUERY_CURSOR) - 1) = QUERY_CURSOR THEN TRUE
    ELSE HasQueryFrom(s, i + 1)

HasQuery(s) == HasQueryFrom(s, 1)

\* data.replace(QUERY_CURSOR, b'')
RECURSIVE RemoveQueryFrom(_, _)
RemoveQueryFrom(s, i) ==
    IF i > Len(s) THEN <<>>
    ELSE IF i + Len(QUERY_CURSOR) - 1 <= Len(s)
            /\ SubSeq(s, i, i + Len(QUERY_CURSOR) - 1) = QUERY_CURSOR
         THEN RemoveQueryFrom(s, i + Len(QUERY_CURSOR))
    ELSE <<s[i]>> \o RemoveQueryFrom(s, i + 1)

RemoveQuery(s) == RemoveQueryFrom(s, 1)

\* data.decode('utf-8', errors='replace'), for ASCII bytes and for bytes that
\* no UTF-8 sequence holds (0xF8..0xFF), the bytes the model draws from.
Decode(s) == [i \in 1..Len(s) |-> IF s[i] < 128 THEN s[i] ELSE REPLACEMENT]

\* The clean text of one chunk read from the master side.
CleanText(data) ==
    Strip(Decode(IF HasQuery(data) THEN RemoveQuery(data) ELSE data))

\* str.strip(): leading and trailing whitespace removed.
IsSpace(c) == c \in {9, 10, 11, 12, 13, 28, 29, 30, 31, 32, 133, 160}

RECURSIVE LStrip(_)
LStrip(s) == IF s # <<>> /\ IsSpace(Head(s)) THEN LStrip(Tail(s)) ELSE s

RECURSIVE RStrip(_)
RStrip(s) ==
    IF s # <<>> /\ IsSpace(s[Len(s)]) THEN RStrip(SubSeq(s, 1, Len(s) - 1)) ELSE s

\* Line 55 as a slip would have it: the text is sent as it was swapped out.
StripWSNone(s) == s

StripWS(s) == RStrip(LStrip(s))

\* chunk_text(text, size), as the sequence of the slices it yields.
RECURSIVE ChunkFrom(_, _, _)
ChunkFrom(text, size, i) ==
    IF i > Len(text) THEN <<>>
    ELSE <<SubSeq(text, i, Min(i + size - 1, Len(text)))>>
         \o ChunkFrom(text, size, i + size)

\* Line 46 as a slip would have it: the range stepped by size + 1.
chunk_textSkipping(text, size) ==
    [k \in 1..((Len(text) + size) \div (size + 1)) |->
        SubSeq(text, (k - 1) * (size + 1) + 1,
               Min((k - 1) * (size + 1) + size, Len(text)))]

chunk_text(text, size) == ChunkFrom(text, size, 1)

\* "".join(chunks)
RECURSIVE Concat(_)
Concat(chunks) ==
    IF chunks = <<>> THEN <<>> ELSE Head(chunks) \o Concat(Tail(chunks))


\* ------------------------------------------------------------------- state
Chats == {"chatA", "chatB"}
\* One pseudo-terminal pair is opened per start_codex_process call, and a call
\* is made by at most one update: the master descriptors are 1..MaxUpdates.
Fds == 1..MaxUpdates
\* What a child process may write in one go: "a", a newline, a
\* cursor-position request followed by "b", and ESC ESC A [ 6 n.
OutputChunks ==
    { <<97>>, <<10>>, QUERY_CURSOR \o <<98>>, <<27, 27, 65, 91, 54, 110>> }
\* The texts the escape filter is applied to on its own: ESC, "[", a parameter
\* byte, an intermediate byte, an upper-case and a lower-case final byte, and a
\* newline.
Alphabet == {ESC, 91, 48, 32, 65, 109, 10}
Users == {ALLOWED_USER_ID, "1000000001"}

NoTask == [st |-> "none", chat |-> "none", chunks |-> <<>>, fds |-> {}]
NoFlush == [gap |-> OUTPUT_DEBOUNCE_SEC, text |-> <<>>, run |-> <<>>,
            nsent |-> 0]
NoRead == [query |-> FALSE, wrote |-> 0, clean |-> <<>>]
Idle == [pc |-> "idle", chat |-> "none", upd |-> 0, dead |-> 0]

VARIABLES
    \* the module-level state of telegram_bridge.py (0 stands for None)
    master_fd, process, output_buffer, flush_task, last_chat_id,
    \* the operating system: open master descriptors, registered readers (the
    \* chat each reader's callback is bound to), each terminal's child process
    \* and unread output bytes, and the number of writes by children so far
    openMasters, readers, child, ptyOut, nout,
    \* the event loop: read_from_pty tasks created and not yet run (each with
    \* the chat_id it was created with), and whether the loop is inside a
    \* blocking os.read
    readTasks, blocked,
    \* handle_message: the position of the running handler, the number of
    \* updates delivered, the sender of the last one
    hm, nupd, lastUser,
    \* ticks until the armed asyncio.sleep ends, ticks since the last append
    timer, gap,
    \* what happened: texts written to a master side, replies to the user,
    \* messages sent, the text swapped out of and appended to the buffer, the
    \* descriptors a read has failed on, cursor replies written, how the last
    \* authorized handler ended
    inputs, replies, sent, swapped, appended, eofSeen, answers, outcome,
    \* the debounce, observed: the fragments appended less than the interval
    \* after one another up to now, the last swap (ticks since the last append,
    \* text, run), whether an append that came an interval or more after the
    \* one before found that one's text still in the buffer, whether every
    \* append came an interval or more after the one before, and the chunks
    \* of swapped-out text whose send was cancelled
    run, lastFlush, abandoned, allGapsGE, dropped,
    \* the last chunk read (whether it held the cursor request, the os.write
    \* calls of the cursor reply made for it, the text appended for it, empty
    \* when that os.write raised), the delayed_flush
    \* tasks asleep and not cancelled, the sessions (master descriptors) whose
    \* output the buffer holds
    lastRead, timers, bufFds,
    \* the escape filter on its own: the text, one pass, two passes, position
    sx, sy, sz, spc,
    \* chunk_text on its own: the text, the size, the chunks yielded, position
    cx, cm, cchunks, cpc,
    \* the research runner (deep_research.py): the metadata stored in run.json,
    \* whether result.md exists, the interaction at the service, the running
    \* command's position, the metadata it holds, the calls of interactions.get
    \* it has made, the commands run so far, how the last command ended
    run_json, result_md, interaction, rpc, metadata, npolls, ncmd, rexit

prog == <<master_fd, process, output_buffer, flush_task, last_chat_id>>
opsys == <<openMasters, readers, child, ptyOut, nout>>
loop == <<readTasks, blocked>>
handler == <<hm, nupd, lastUser>>
clock == <<timer, gap>>
hist == <<inputs, replies, sent, swapped, appended, eofSeen, answers, outcome>>
debounce == <<run, lastFlush, abandoned, allGapsGE, dropped, lastRead,
              timers, bufFds>>
chunker == <<cx, cm, cchunks, cpc>>
research == <<run_json, result_md, interaction, rpc, metadata, npolls, ncmd,
              rexit>>
pure == <<sx, sy, sz, spc, chunker, research>>
vars == <<prog, opsys, loop, handler, clock, hist, debounce, pure>>

BridgeInit ==
    /\ master_fd = 0
    /\ process = 0
    /\ output_buffer = <<>>
    /\ flush_task = NoTask
    /\ last_chat_id = "none"
    /\ openMasters = {}
    /\ readers = [f \in Fds |-> "none"]
    /\ child = [f \in Fds |-> "unopened"]
    /\ ptyOut = [f \in Fds |-> <<>>]
    /\ nout = 0
    /\ readTasks = <<>>
    /\ blocked = FALSE
    /\ hm = Idle
    /\ nupd = 0
    /\ lastUser = "none"
    /\ timer = 0
    /\ gap = OUTPUT_DEBOUNCE_SEC + 1
    /\ inputs = <<>>
    /\ replies = <<>>
    /\ sent = <<>>
    /\ swapped = <<>>
    /\ appended = <<>>
    /\ eofSeen = {}
    /\ answers = 0
    /\ outcome = "none"
    /\ run = <<>>
    /\ lastFlush = NoFlush
    /\ abandoned = FALSE
    /\ allGapsGE = TRUE
    /\ dropped = 0
    /\ lastRead = NoRead
    /\ timers = 0
    /\ bufFds = {}

\* The parts checked on their own, at rest.
NoMeta == [status |-> "none", completed_at |-> FALSE]
NoInteraction == [status |-> "none", outputs |-> "none"]

StripOff == sx = <<>> /\ sy = <<>> /\ sz = <<>> /\ spc = "off"
ChunkOff == cx = <<>> /\ cm = 1 /\ cchunks = <<>> /\ cpc = "off"
ResearchOff ==
    /\ run_json = NoMeta
    /\ result_md = FALSE
    /\ interaction = NoInteraction
    /\ rpc = "off"
    /\ metadata = NoMeta
    /\ npolls = 0
    /\ ncmd = 0
    /\ rexit = "none"

Init ==
    /\ BridgeInit
    /\ StripOff
    /\ ChunkOff
    /\ ResearchOff


\* ----------------------------------------------------------- the children
\* A live child writes a chunk to its terminal.
ChildOutput(fd, chunk) ==
    /\ child[fd] = "alive"
    /\ nout < MaxOutput
    /\ ptyOut' = [ptyOut EXCEPT ![fd] = @ \o chunk]
    /\ nout' = nout + 1
    /\ UNCHANGED <<prog, openMasters, readers, child, loop, handler, clock,
                   hist, debounce, pure>>

\* A live child exits; the subordinate side of its terminal closes with it.
ChildExit(fd) ==
    /\ child[fd] = "alive"
    /\ child' = [child EXCEPT ![fd] = "exited"]
    /\ UNCHANGED <<prog, openMasters, readers, ptyOut, nout, loop, handler,
                   clock, hist, debounce, pure>>

\* The sleep of the armed delayed_flush task has ended.
SleepEnded == flush_task.st = "sleeping" /\ timer = 0

\* The current master side holds output that no read has taken yet.
UnreadOutput == master_fd # 0 /\ ptyOut[master_fd] # <<>>

\* The os.read the loop is blocked in has something to return.
ReadCanReturn == UnreadOutput \/ child[master_fd] = "exited"

\* A tick of the clock.  What the loop does takes no time, only waiting does:
\* the loop wakes an ended sleep and reads pending output before the next
\* tick, and a blocking os.read returns as soon as the child writes or exits.
Tick ==
    /\ IF blocked THEN ~ReadCanReturn ELSE ~SleepEnded /\ ~UnreadOutput
    /\ timer > 0 \/ gap <= OUTPUT_DEBOUNCE_SEC
    /\ timer' = IF timer > 0 THEN timer - 1 ELSE 0
    /\ gap' = Min(gap + 1, OUTPUT_DEBOUNCE_SEC + 1)
    /\ UNCHANGED <<prog, opsys, loop, handler, hist, debounce, pure>>

\* --------------------------------------------------------- handle_message
\* Line 137 as a slip would have it: the sender is not compared.
AuthorizedAnyone(user) == TRUE

\* Line 137: user_id != ALLOWED_USER_ID returns.
Authorized(user) == user = ALLOWED_USER_ID

\* Line 142 as a slip would have it: process.returncode read without poll(),
\* which stays None until the child is waited for.
ChildExitedUnpolled == FALSE

\* process.poll() is not None
ChildExited == process # 0 /\ child[process] = "exited"

\* Line 142 as a slip would have it: only a missing descriptor starts a session.
NeedsStartUnlessFd == master_fd = 0

\* master_fd is None or (process and process.poll() is not None)
NeedsStart == master_fd = 0 \/ ChildExited

\* os.write on a master side raises only when the subordinate side is closed:
\* the child, alive when last polled, exits before the write.
WriteMayFail(ch, fd) == ch[fd] = "alive"

\* Lines 146-151: the text of update rec.upd is written to master side fd; ch
\* is the children as the handler found or made them.
WriteInput(fd, ch, rec, started) ==
    \E fail \in BOOLEAN :
        /\ fail => WriteMayFail(ch, fd)
        /\ IF fail
           THEN /\ child' = [ch EXCEPT ![fd] = "exited"]
                /\ replies' = Append(replies,
                       [upd |-> rec.upd, kind |-> "error", chat |-> rec.chat])
                /\ hm' = [rec EXCEPT !.pc = "reporting"]
                /\ outcome' = "write_error"
                /\ UNCHANGED inputs
           ELSE /\ child' = ch
                /\ inputs' = Append(inputs,
                       [upd |-> rec.upd, fd |-> fd, dead |-> rec.dead,
                        started |-> started,
                        afterError |-> (outcome = "write_error")])
                /\ hm' = Idle
                /\ outcome' = "ok"
                /\ UNCHANGED replies

\* Lines 135-143 and, with a live session, 146-151.
handle_message(user, chat) ==
    /\ ~blocked
    /\ hm.pc = "idle"
    /\ nupd < MaxUpdates
    /\ nupd' = nupd + 1
    /\ lastUser' = user
    /\ LET rec == [pc |-> "starting", chat |-> chat, upd |-> nupd + 1,
                   dead |-> IF ChildExited THEN master_fd ELSE 0]
       IN IF ~Authorized(user)
          THEN UNCHANGED <<hm, child, inputs, replies, outcome>>
          ELSE IF NeedsStart
          THEN /\ hm' = rec
               /\ replies' = Append(replies,
                      [upd |-> rec.upd, kind |-> "starting", chat |-> chat])
               /\ UNCHANGED <<child, inputs, outcome>>
          ELSE WriteInput(master_fd, child, rec, FALSE)
    /\ UNCHANGED <<prog, openMasters, readers, ptyOut, nout, loop, clock,
                   sent, swapped, appended, eofSeen, answers, debounce, pure>>

\* Lines 144-151, after the "Starting" reply: start_codex_process opens a
\* terminal pair and spawns the command, which may fail; then the write.
start_codex_process ==
    /\ ~blocked
    /\ hm.pc = "starting"
    /\ LET fd == Cardinality(openMasters) + 1
       IN /\ openMasters' = openMasters \cup {fd}
          /\ master_fd' = fd
          /\ \E spawned \in BOOLEAN :
                IF spawned
                THEN /\ process' = fd
                     /\ readers' = [readers EXCEPT ![fd] = hm.chat]
                     /\ WriteInput(fd, [child EXCEPT ![fd] = "alive"], hm, TRUE)
                ELSE /\ child' = [child EXCEPT ![fd] = "none"]
                     /\ hm' = Idle
                     /\ outcome' = "spawn_error"
                     /\ UNCHANGED <<process, readers, inputs, replies>>
    /\ UNCHANGED <<output_buffer, flush_task, last_chat_id, ptyOut, nout, loop,
                   nupd, lastUser, clock, sent, swapped, appended, eofSeen,
                   answers, debounce, pure>>

\* Line 151, after the error reply: the handler returns.
ErrorReported ==
    /\ ~blocked
    /\ hm.pc = "reporting"
    /\ hm' = Idle
    /\ UNCHANGED <<prog, opsys, loop, nupd, lastUser, clock, hist, debounce,
                   pure>>


\* ---------------------------------------------------------- the output side
\* Line 133: the loop finds a registered master side readable (unread output,
\* or the end-of-file condition of a terminal whose child is gone) and runs
\* the reader's callback, which creates a read_from_pty task bound to the chat
\* of the update that started the session.
Readable(fd) == ptyOut[fd] # <<>> \/ child[fd] = "exited"

ReaderCallback(fd) ==
    /\ ~blocked
    /\ readers[fd] # "none"
    /\ Readable(fd)
    /\ Len(readTasks) < MaxTasks
    /\ readTasks' = Append(readTasks, readers[fd])
    /\ UNCHANGED <<prog, opsys, blocked, handler, clock, hist, debounce, pure>>

\* Line 101 as a slip would have it: output_buffer = clean_text
AppendFragmentAssigned(buf, frag) == frag

\* Line 101: output_buffer += clean_text
AppendFragment(buf, frag) == buf \o frag

\* Lines 70-71: a flush task that is not done is cancelled.  Cancelling one that
\* is sending abandons the send in flight and the chunks after it.
CancelledChunks(task) == IF task.st = "sending" THEN Len(task.chunks) ELSE 0

\* Line 80: the new delayed_flush task, asleep.
Sleeping == [st |-> "sleeping", chat |-> "none", chunks |-> <<>>, fds |-> {}]
Done == [st |-> "done", chat |-> "none", chunks |-> <<>>, fds |-> {}]

\* Line 70 as a slip would have it: "if flush_task and flush_task.done()".
CancelsDone(task) == task.st = "done"

\* Lines 70-71: flush_task and not flush_task.done()
Cancels(task) == task.st \in {"sleeping", "sending"}

\* Lines 82-104: the oldest read_from_pty task runs.  It reads the CURRENT
\* master_fd, and os.read returns all the output pending there (the model's
\* terminals never hold the 4096 bytes a read is limited to).  With nothing
\* to read and the child alive, os.read blocks, and the loop with it, until
\* the child writes or exits.  A sleep that ended is woken before a task
\* reads output that came after it ended (a tick is the finest time told
\* apart); a read the loop is blocked in returns first.
read_from_pty ==
    /\ readTasks # <<>>
    /\ blocked \/ ~SleepEnded
    /\ LET m == master_fd
           chat == Head(readTasks)
       IN IF ptyOut[m] # <<>>
          THEN LET data == ptyOut[m]
                   clean == CleanText(data)
               IN /\ ptyOut' = [ptyOut EXCEPT ![m] = <<>>]
                  /\ readTasks' = Tail(readTasks)
                  /\ blocked' = FALSE
                  /\ UNCHANGED eofSeen
                  /\ \E answerFails \in BOOLEAN :
                        \* line 90 raises when the subordinate side is closed
                        /\ answerFails => HasQuery(data) /\ child[m] = "exited"
                        /\ answers' = IF HasQuery(data) /\ ~answerFails
                                      THEN answers + 1 ELSE answers
                        /\ lastRead' =
                               [query |-> HasQuery(data),
                                wrote |-> IF HasQuery(data) THEN 1 ELSE 0,
                                clean |-> IF answerFails THEN <<>> ELSE clean]
                        /\ IF answerFails \/ clean = <<>>
                           THEN UNCHANGED <<output_buffer, flush_task,
                                    last_chat_id, clock, appended, run,
                                    lastFlush, abandoned, allGapsGE, dropped,
                                    timers, bufFds>>
                           ELSE /\ output_buffer' =
                                       AppendFragment(output_buffer, clean)
                                /\ appended' = appended \o clean
                                \* schedule_flush(bot, chat_id)
                                /\ last_chat_id' = chat
                                /\ dropped' = dropped + CancelledChunks(flush_task)
                                /\ timers' =
                                       IF Cancels(flush_task)
                                          /\ flush_task.st = "sleeping"
                                       THEN timers ELSE timers + 1
                                /\ bufFds' = bufFds \cup {m}
                                /\ flush_task' = Sleeping
                                /\ timer' = OUTPUT_DEBOUNCE_SEC
                                /\ gap' = 0
                                /\ run' = IF gap < OUTPUT_DEBOUNCE_SEC
                                          THEN run \o clean ELSE clean
                                /\ abandoned' = (abandoned \/
                                       (gap >= OUTPUT_DEBOUNCE_SEC
                                        /\ output_buffer # <<>>))
                                /\ allGapsGE' = (allGapsGE /\
                                       gap >= OUTPUT_DEBOUNCE_SEC)
                                /\ UNCHANGED lastFlush
          ELSE IF child[m] = "exited"
          THEN \* end of file: os.read raises OSError (or returns nothing)
               /\ eofSeen' = eofSeen \cup {m}
               /\ readTasks' = Tail(readTasks)
               /\ blocked' = FALSE
               /\ UNCHANGED <<output_buffer, flush_task, last_chat_id, ptyOut,
                              clock, appended, answers, debounce>>
          ELSE /\ ~blocked
               /\ blocked' = TRUE
               /\ UNCHANGED <<output_buffer, flush_task, last_chat_id, ptyOut,
                              readTasks, clock, appended, eofSeen, answers,
                              debounce>>
    /\ UNCHANGED <<master_fd, process, openMasters, readers, child, nout,
                   handler, inputs, replies, sent, swapped, outcome, pure>>

\* Lines 73-76 and 49-60: the sleep of delayed_flush ends; flush_output swaps
\* the buffer out, trims it and, if text is left, starts sending its chunks.
flush_output ==
    /\ ~blocked
    /\ flush_task.st = "sleeping"
    /\ timer = 0
    /\ LET text == StripWS(output_buffer)
       IN flush_task' = IF text = <<>> THEN Done
                        ELSE [st |-> "sending", chat |-> last_chat_id,
                              chunks |-> chunk_text(text, MAX_MESSAGE_CHARS),
                              fds |-> bufFds]
    /\ swapped' = swapped \o output_buffer
    /\ output_buffer' = <<>>
    /\ lastFlush' = [gap |-> gap, text |-> output_buffer, run |-> run,
                     nsent |-> Len(sent)]
    /\ timers' = timers - 1
    /\ bufFds' = {}
    /\ UNCHANGED <<master_fd, process, last_chat_id, opsys, loop, handler,
                   clock, inputs, replies, sent, appended, eofSeen, answers,
                   outcome, run, abandoned, allGapsGE, dropped, lastRead,
                   pure>>

\* Lines 59-64: the send in flight completes; the next chunk, if any, is sent.
send_message ==
    /\ ~blocked
    /\ flush_task.st = "sending"
    /\ sent' = Append(sent, [chat |-> flush_task.chat,
                             text |-> Head(flush_task.chunks),
                             fds |-> flush_task.fds])
    /\ flush_task' = IF Len(flush_task.chunks) = 1 THEN Done
                     ELSE [flush_task EXCEPT !.chunks = Tail(@)]
    /\ UNCHANGED <<master_fd, process, output_buffer, last_chat_id, opsys,
                   loop, handler, clock, inputs, replies, swapped, appended,
                   eofSeen, answers, outcome, debounce, pure>>

Next ==
    \/ \E fd \in Fds, chunk \in OutputChunks : ChildOutput(fd, chunk)
    \/ \E fd \in Fds : ChildExit(fd)
    \/ Tick
    \/ \E user \in Users, chat \in Chats : handle_message(user, chat)
    \/ start_codex_process
    \/ ErrorReported
    \/ \E fd \in Fds : ReaderCallback(fd)
    \/ read_from_pty
    \/ flush_output
    \/ send_message

Spec == Init /\ [][Next]_vars

\* ------------------------------------------- the sessions, children silent
\* The bridge with children that write nothing: sessions start, children exit,
\* readers fire on the end-of-file condition.
SessionNext ==
    \/ \E fd \in Fds : ChildExit(fd)
    \/ \E user \in Users, chat \in Chats : handle_message(user, chat)
    \/ start_codex_process
    \/ ErrorReported
    \/ \E fd \in Fds : ReaderCallback(fd)
    \/ read_from_pty

SpecSession == Init /\ [][SessionNext]_vars

\* --------------------------------------------- the output side of a session
\* The state after the first authorized update has started a session from
\* chatA and written its text: the output side of one session, no update
\* after the first.
OutputInit ==
    /\ master_fd = 1
    /\ process = 1
    /\ output_buffer = <<>>
    /\ flush_task = NoTask
    /\ last_chat_id = "none"
    /\ openMasters = {1}
    /\ readers = [f \in Fds |-> IF f = 1 THEN "chatA" ELSE "none"]
    /\ child = [f \in Fds |-> IF f = 1 THEN "alive" ELSE "unopened"]
    /\ ptyOut = [f \in Fds |-> <<>>]
    /\ nout = 0
    /\ readTasks = <<>>
    /\ blocked = FALSE
    /\ hm = Idle
    /\ nupd = 1
    /\ lastUser = ALLOWED_USER_ID
    /\ timer = 0
    /\ gap = OUTPUT_DEBOUNCE_SEC + 1
    /\ inputs = <<[upd |-> 1, fd |-> 1, dead |-> 0, started |-> TRUE,
                   afterError |-> FALSE]>>
    /\ replies = <<[upd |-> 1, kind |-> "starting", chat |-> "chatA"]>>
    /\ sent = <<>>
    /\ swapped = <<>>
    /\ appended = <<>>
    /\ eofSeen = {}
    /\ answers = 0
    /\ outcome = "ok"
    /\ run = <<>>
    /\ lastFlush = NoFlush
    /\ abandoned = FALSE
    /\ allGapsGE = TRUE
    /\ dropped = 0
    /\ lastRead = NoRead
    /\ timers = 0
    /\ bufFds = {}
    /\ StripOff
    /\ ChunkOff
    /\ ResearchOff

OutputNext ==
    \/ \E chunk \in OutputChunks : ChildOutput(1, chunk)
    \/ ChildExit(1)
    \/ Tick
    \/ ReaderCallback(1)
    \/ read_from_pty
    \/ flush_output
    \/ send_message

SpecOutput == OutputInit /\ [][OutputNext]_vars

\* The same with the scheduling of the event loop: time passes, a readable
\* descriptor's callback runs, a task that is ready runs, a send in flight
\* completes.  Nothing makes a child write or exit.
SpecOutputFair ==
    /\ SpecOutput
    /\ WF_vars(Tick)
    /\ WF_vars(ReaderCallback(1))
    /\ WF_vars(read_from_pty)
    /\ WF_vars(flush_output)
    /\ WF_vars(send_message)

\* ------------------------------------------------- the escape filter alone
Texts == UNION {[1..n -> Alphabet] : n \in 0..MaxLen}

StripInit ==
    /\ BridgeInit
    /\ sx \in Texts /\ sy = <<>> /\ sz = <<>> /\ spc = "start"
    /\ ChunkOff
    /\ ResearchOff

StripOnce ==
    /\ spc = "start"
    /\ sy' = Strip(sx)
    /\ spc' = "once"
    /\ UNCHANGED <<prog, opsys, loop, handler, clock, hist, debounce, sx, sz,
                   chunker, research>>

StripTwice ==
    /\ spc = "once"
    /\ sz' = Strip(sy)
    /\ spc' = "done"
    /\ UNCHANGED <<prog, opsys, loop, handler, clock, hist, debounce, sx, sy,
                   chunker, research>>

StripNext == StripOnce \/ StripTwice

SpecStrip == StripInit /\ [][StripNext]_vars

\* ------------------------------------------------------- chunk_text alone
\* The texts chunk_text is applied to: letters and whitespace.
ChunkTexts == UNION {[1..n -> {97, 98, 32}] : n \in 0..MaxText}

ChunkInit ==
    /\ BridgeInit
    /\ StripOff
    /\ ResearchOff
    /\ cx \in ChunkTexts /\ cm \in 1..MaxSize /\ cchunks = <<>>
    /\ cpc = "start"

\* list(chunk_text(cx, cm))
ChunkText ==
    /\ cpc = "start"
    /\ cchunks' = chunk_text(cx, cm)
    /\ cpc' = "done"
    /\ UNCHANGED <<prog, opsys, loop, handler, clock, hist, debounce, sx, sy,
                   sz, spc, cx, cm, research>>

ChunkNext == ChunkText

SpecChunk == ChunkInit /\ [][ChunkNext]_vars


\* -------------------------------------------------- the research runner
\* src/selected/gemini/scripts/deep_research.py, for one run directory.  The
\* outputs of a completed interaction: none at all, a last output whose text
\* is missing (None), one whose text is empty, one that holds text.
Outputs == {"none", "null", "empty", "text"}

ResearchInit ==
    /\ BridgeInit
    /\ StripOff
    /\ ChunkOff
    /\ run_json = NoMeta
    /\ result_md = FALSE
    /\ interaction = NoInteraction
    /\ rpc = "idle"
    /\ metadata = NoMeta
    /\ npolls = 0
    /\ ncmd = 0
    /\ rexit = "none"

rest == <<prog, opsys, loop, handler, clock, hist, debounce, sx, sy, sz, spc,
          chunker>>

\* The service ends the interaction: completed, with its outputs, or failed.
InteractionEnds ==
    /\ interaction.status = "running"
    /\ \/ \E o \in Outputs :
             interaction' = [status |-> "completed", outputs |-> o]
       \/ interaction' = [status |-> "failed", outputs |-> "none"]
    /\ UNCHANGED <<run_json, result_md, rpc, metadata, npolls, ncmd, rexit,
                   rest>>

\* Line 210 and line 173: the output text of a completed interaction, as
\* save_result tests it ("if output_text").
HasOutputText(o) == o = "text"

\* Lines 292-293, 310-311, 330-331: read_text(run_dir / "result.md") raises
\* FileNotFoundError when the file is missing.
PrintResult(exists) == IF exists THEN "ok" ELSE "FileNotFoundError"

\* Lines 248-279: a new run.  The interaction is created, the metadata is
\* stored with status "running" (save_result with no output text writes
\* run.json only), and with --no-wait the command ends.
run_new_research(no_wait) ==
    /\ rpc = "idle"
    /\ run_json = NoMeta
    /\ ncmd < MaxCommands
    /\ ncmd' = ncmd + 1
    /\ interaction' = [status |-> "running", outputs |-> "none"]
    /\ metadata' = [status |-> "running", completed_at |-> FALSE]
    /\ run_json' = metadata'
    /\ npolls' = 0
    /\ IF no_wait THEN rpc' = "idle" /\ rexit' = "ok"
                  ELSE rpc' = "polling" /\ UNCHANGED rexit
    /\ UNCHANGED <<result_md, rest>>

\* Lines 300-318: --resume.  A run stored as completed is printed from
\* result.md; any other is polled again.
resume_research ==
    /\ rpc = "idle"
    /\ run_json # NoMeta
    /\ ncmd < MaxCommands
    /\ ncmd' = ncmd + 1
    /\ metadata' = run_json
    /\ npolls' = 0
    /\ IF run_json.status = "completed"
       THEN rpc' = "idle" /\ rexit' = PrintResult(result_md)
       ELSE rpc' = "polling" /\ UNCHANGED rexit
    /\ UNCHANGED <<run_json, result_md, interaction, rest>>

\* Lines 158-169: --show prints result.md if it exists, run.json otherwise.
show_run ==
    /\ rpc = "idle"
    /\ run_json # NoMeta
    /\ ncmd < MaxCommands
    /\ ncmd' = ncmd + 1
    /\ rexit' = "ok"
    /\ UNCHANGED <<run_json, result_md, interaction, rpc, metadata, npolls,
                   rest>>

\* Lines 287-297 and 325-335, with save_result (lines 172-196): the status
\* poll_interaction returned is stored, completed_at is set for "completed",
\* result.md is written if there is output text, run.json always; a completed
\* run is then printed from result.md.
Finish(status, has_text) ==
    /\ metadata' = [status |-> status, completed_at |-> (status = "completed")]
    /\ result_md' = (result_md \/ has_text)
    /\ run_json' = metadata'
    /\ rexit' = IF status = "completed" THEN PrintResult(result_md') ELSE "ok"
    /\ rpc' = "idle"

\* Lines 206-217: one turn of the loop of poll_interaction.  A failed
\* interaction returns the text "Research failed: ..."; one still running
\* either times out (max_wait) or is asked about again after a sleep.
poll_interaction ==
    /\ rpc = "polling"
    /\ IF interaction.status = "completed"
       THEN Finish("completed", HasOutputText(interaction.outputs))
            /\ UNCHANGED npolls
       ELSE IF interaction.status = "failed"
       THEN Finish("failed", TRUE) /\ UNCHANGED npolls
       ELSE \E timed_out \in BOOLEAN :
               /\ ~timed_out => npolls < MaxPolls
               /\ IF timed_out
                  THEN Finish("timeout", FALSE) /\ UNCHANGED npolls
                  ELSE /\ npolls' = npolls + 1
                       /\ UNCHANGED <<run_json, result_md, rpc, metadata,
                                      rexit>>
    /\ UNCHANGED <<interaction, ncmd, rest>>

ResearchNext ==
    \/ InteractionEnds
    \/ \E no_wait \in BOOLEAN : run_new_research(no_wait)
    \/ resume_research
    \/ show_run
    \/ poll_interaction

SpecResearch == ResearchInit /\ [][ResearchNext]_vars

\* ================================================================== claims

\* C10: strip is idempotent: stripping a text twice gives what stripping it
\* once gives.  (The claim as stated; the single left-to-right pass of the
\* source does not have the property: removing ESC A from ESC ESC A A leaves
\* ESC A, which the second pass removes.)
C10_StripIdempotent == spc = "done" => sz = sy

\* C1: fragments appended less than the debounce interval after one another
\* get exactly one flush, which swaps the buffer out one interval after the
\* last of them and whose text is their concatenation in arrival order: every
\* swap comes OUTPUT_DEBOUNCE_SEC ticks after the last append, takes exactly
\* the run of fragments that ended with that append, and no run is left in
\* the buffer when the next one begins.  (The claim as stated.)
C1_DebounceCoalescing ==
    /\ lastFlush.gap = OUTPUT_DEBOUNCE_SEC
    /\ lastFlush.text = lastFlush.run
    /\ ~abandoned

\* C2: no fragment is lost or duplicated by a flush: the text appended so far
\* is the text swapped out so far followed by the text still in the buffer.
C2_NoLossNoDup == appended = swapped \o output_buffer

\* C2, its case: a fragment was appended while a flush was sending (the
\* append cancelled it), and has since been swapped out by the next flush.
C2_Witness ==
    /\ dropped > 0
    /\ output_buffer = <<>>
    /\ Len(appended) >= 2
    /\ swapped = appended

\* C3: when every fragment comes a debounce interval or more after the one
\* before, each fragment is swapped out and sent by a flush of its own: no
\* fragment finds its predecessor still in the buffer, every swap takes one
\* fragment, and no send of swapped-out text is cancelled.  (The claim as
\* stated.)
C3_OneFlushPerFragment ==
    allGapsGE => /\ ~abandoned
                 /\ dropped = 0
                 /\ Len(lastFlush.text) = Len(lastFlush.run)

\* C4: once the child has exited, the next authorized update starts a new
\* session before it writes, and its text goes to the new master side: every
\* text written by a handler that found the child exited was written after
\* that handler started a session, to a descriptor other than the dead one.
C4_RespawnBeforeWrite ==
    \A i \in DOMAIN inputs :
        inputs[i].dead # 0 =>
            /\ inputs[i].started
            /\ inputs[i].fd # inputs[i].dead
            /\ child[inputs[i].fd] \in {"alive", "exited"}

\* C4, its case: a handler found the child exited and wrote its text.
C4_Witness == \E i \in DOMAIN inputs : inputs[i].dead # 0

\* C5: a session has at most one live child, one open master handle and one
\* registered reader.  (The claim as stated; start_codex_process neither
\* closes the old master descriptor nor removes its reader.)
C5_OneSession ==
    /\ Cardinality({f \in Fds : child[f] = "alive"}) <= 1
    /\ Cardinality(openMasters) <= 1
    /\ Cardinality({f \in Fds : readers[f] # "none"}) <= 1

\* C6: when the spawn fails, the failure is reported to the conversation and
\* no session is left behind: no master handle without a child stays open and
\* the next authorized update starts a session.  (The claim as stated.)
C6_SpawnError ==
    outcome = "spawn_error" =>
        /\ replies # <<>> /\ replies[Len(replies)].kind = "error"
        /\ \A f \in openMasters : child[f] # "none"
        /\ NeedsStart

\* C7: once a read has met the end of file or an error on a master side, the
\* session is cleaned up: its reader is removed and its master handle closed.
\* (The claim as stated; read_from_pty only passes.)
C7_EofCleanup ==
    \A f \in eofSeen : f \notin openMasters /\ readers[f] = "none"

\* C8: a failed write of the input is reported to the user by a reply to the
\* update's chat while the handler goes on to return, the session then counts
\* as dead, and the next authorized update starts a session before it writes.
C8_WriteError ==
    /\ hm.pc = "reporting" =>
           /\ replies # <<>>
           /\ replies[Len(replies)] =
                  [upd |-> hm.upd, kind |-> "error", chat |-> hm.chat]
    /\ (outcome = "write_error" /\ hm.pc # "starting") => NeedsStart
    /\ \A i \in DOMAIN inputs : inputs[i].afterError => inputs[i].started

\* C8, its case: a write failed, and the next authorized update wrote its text.
C8_Witness == \E i \in DOMAIN inputs : inputs[i].afterError

\* C9: an update from a sender other than ALLOWED_USER_ID changes nothing:
\* no session, no process, no input written, no reply.
C9_UnauthorizedIgnored ==
    [][(nupd' # nupd /\ lastUser' # ALLOWED_USER_ID) =>
           UNCHANGED <<prog, opsys, loop, hm, clock, hist, debounce>>]_vars

\* C9, its case: an update from another sender was handled while a session
\* with a live child existed.
C9_Witness ==
    /\ lastUser \notin {"none", ALLOWED_USER_ID}
    /\ master_fd # 0
    /\ child[master_fd] = "alive"

\* C11: for every text x and size m > 0 the chunks of chunk_text(x, m),
\* concatenated in order, are x exactly, and every chunk holds at least one and
\* at most m characters (the empty text has no chunk).
C11_ChunksRebuildText ==
    cpc = "done" =>
        /\ Concat(cchunks) = cx
        /\ \A k \in DOMAIN cchunks :
               1 <= Len(cchunks[k]) /\ Len(cchunks[k]) <= cm

\* C11, its case: a text that is cut in more than one chunk, the last one
\* shorter than the size.
C11_Witness ==
    /\ cpc = "done"
    /\ Len(cchunks) >= 2
    /\ Len(cchunks[Len(cchunks)]) < cm

\* C12: for every chunk read that holds the cursor-position request, exactly
\* one write of the cursor-position reply is made to the master side and the text
\* appended to the buffer for the chunk holds no request; for a chunk that
\* holds none, no reply is written.  (The claim as stated; what replace leaves
\* is filtered in one pass, and the pass can leave ESC [ 6 n behind.)
C12_DeviceQuery ==
    /\ lastRead.query => /\ lastRead.wrote = 1
                         /\ ~HasQuery(lastRead.clean)
    /\ ~lastRead.query => lastRead.wrote = 0

\* The payloads of the messages sent since the last swap, followed by the
\* chunks the flush has still to send.
FlushPayload ==
    Concat([k \in 1..(Len(sent) - lastFlush.nsent) |->
               sent[lastFlush.nsent + k].text])
    \o Concat(flush_task.chunks)

AllSpace(t) == \A k \in DOMAIN t : IsSpace(t[k])

\* r is t without the whitespace at its ends.
IsTrimOf(r, t) ==
    /\ r # <<>>
    /\ ~IsSpace(r[1])
    /\ ~IsSpace(r[Len(r)])
    /\ \E a \in 0..(Len(t) - Len(r)) :
          /\ SubSeq(t, a + 1, a + Len(r)) = r
          /\ \A k \in 1..a : IsSpace(t[k])
          /\ \A k \in (a + Len(r) + 1)..Len(t) : IsSpace(t[k])

\* C13: at the end of the sleep flush_output empties the buffer and trims the
\* text it took.  While no fragment has come since (the flush task is the
\* current one, sending or done), the buffer is empty; a text of nothing but
\* whitespace sends no message and the task is done; any other text is what
\* the flush has sent and has still to send, without the whitespace at its ends.
C13_FlushTrims ==
    flush_task.st \in {"sending", "done"} =>
        /\ output_buffer = <<>>
        /\ IF AllSpace(lastFlush.text)
           THEN flush_task.st = "done" /\ Len(sent) = lastFlush.nsent
           ELSE IsTrimOf(FlushPayload, lastFlush.text)

\* C13, its case: a buffer that held whitespace only was swapped out, and the
\* flush ended with no message sent.
C13_Witness ==
    /\ flush_task.st = "done"
    /\ lastFlush.text # <<>>
    /\ AllSpace(lastFlush.text)
    /\ output_buffer = <<>>

\* The texts of the messages sent since the last swap.
FlushSent ==
    [k \in 1..(Len(sent) - lastFlush.nsent) |-> sent[lastFlush.nsent + k].text]

\* C14: a flush whose trimmed text has L characters sends exactly
\* ceil(L / MAX_MESSAGE_CHARS) messages, in order, every one but the last of
\* MAX_MESSAGE_CHARS characters, and their payloads joined are the trimmed
\* text: once the flush that took the last text is no longer sending, that is
\* what has been sent since the swap.  (The claim as stated; a flush cancelled
\* by the next fragment sends fewer.)
C14_ChunkedFlush ==
    (flush_task.st # "sending" /\ ~AllSpace(lastFlush.text)) =>
        LET L == Len(StripWS(lastFlush.text))
        IN /\ Len(FlushSent) =
                  (L + MAX_MESSAGE_CHARS - 1) \div MAX_MESSAGE_CHARS
           /\ \A k \in 1..(Len(FlushSent) - 1) :
                  Len(FlushSent[k]) = MAX_MESSAGE_CHARS
           /\ Concat(FlushSent) = StripWS(lastFlush.text)

\* C15: at most one delayed_flush task is asleep and not cancelled, and it is
\* the task flush_task names: a fragment that arrives while one is asleep
\* cancels it before the new one is created.
C15_OneTimer ==
    /\ timers <= 1
    /\ timers = 1 <=> flush_task.st = "sleeping"

\* C15, its case: a second fragment was appended before any flush, while the
\* timer of the first was armed, and one timer is armed now.
C15_Witness ==
    /\ timers = 1
    /\ swapped = <<>>
    /\ lastRead.clean # <<>>
    /\ Len(output_buffer) > Len(lastRead.clean)

\* C16: every message a flush sends goes to the conversation of the update
\* that started the session whose output it carries, also after a session was
\* started from another conversation.  (The claim as stated; a read task
\* created by the reader of an earlier session reads the current master side
\* and passes its own chat_id to schedule_flush.)
C16_OriginatingChat ==
    \A k \in DOMAIN sent :
        \A f \in sent[k].fds : sent[k].chat = readers[f]

\* C17: no flushed output is dropped: every chunk of a text that flush_output
\* swapped out is sent, also when a fragment arrives while the chunks are
\* being sent.  No chunk's send is cancelled, and once no flush is sending,
\* the texts swapped out, trimmed, are the payloads sent.  (The claim as
\* stated; schedule_flush cancels a flush task that is sending.)
C17_NoFlushedOutputDropped ==
    /\ dropped = 0
    /\ (flush_task.st # "sending" /\ ~AllSpace(lastFlush.text)) =>
           Concat(FlushSent) = StripWS(lastFlush.text)

\* C18: the output read handler never blocks the event loop: no read_from_pty
\* task calls os.read on a master side that has neither data nor end of file
\* to give.  (The claim as stated; the descriptor is blocking, and the reader
\* fires again before the first task has read.)
C18_ReadNeverBlocks == ~blocked

\* C19: whenever the buffer holds text a delayed_flush task is asleep and not
\* cancelled, and so a buffer that holds text is eventually swapped out: the
\* flush is put off while output keeps arriving, never forgotten.  (The claim
\* as stated; the timer is armed, but while the loop is blocked in os.read the
\* sleep that ended is never woken.)
C19_FlushNeverForgotten ==
    /\ [](output_buffer # <<>> => flush_task.st = "sleeping" /\ timers = 1)
    /\ (output_buffer # <<>>) ~> (output_buffer = <<>>)

\* C20: whenever the stored metadata of a run has status "completed" the run
\* directory holds result.md, whatever poll_interaction returned, so printing
\* the result of a completed run never fails on a missing file; and
\* completed_at is set exactly when the status is "completed".  (The claim as
\* stated; save_result writes result.md only for a non-empty output text.)
C20_CompletedHasResult ==
    /\ run_json.status = "completed" => result_md
    /\ rexit # "FileNotFoundError"
    /\ run_json.completed_at <=> run_json.status = "completed"

=============================================================================
